---- MODULE Spec2Model ----
(***************************************************************************)
(* Model of scripts/deployment/deploy-f1-platform.py: the deployment       *)
(* orchestrator main() and CloudFormationDeployer.  The run is one         *)
(* sequential process; pc is its position.  The control plane is the state *)
(* cf: the status of every stack the run has asked about so far (the       *)
(* status a stack has when the run starts is chosen at the first describe  *)
(* call for it; nothing reads it earlier).  The control plane's answers to *)
(* describe/create/update calls are nondeterministic choices made in the   *)
(* action that issues the call.                                            *)
(* upload_template is modelled on its non-raising path.                    *)
(***************************************************************************)
EXTENDS Integers, Sequences, FiniteSets, TLC

\* ---------------------------------------------------------------- bounds
\* Saturation value of the poll counter of one wait (the loop itself has
\* no bound; the counter only stops growing).
MaxPolls == 2

EmptyMap == [k \in {} |-> ""]

\* argparse: --environment (the default, "dev") and the --project-name default
Environments == {"dev"}
DefaultProjectName == "f1-data-platform"

\* ------------------------------------------------- control-plane statuses
\* "NONE" stands for a stack the control plane does not know: describe_stacks
\* raises for it.
NoStack == "NONE"

StackStatuses ==
    { "CREATE_IN_PROGRESS", "CREATE_COMPLETE", "CREATE_FAILED",
      "ROLLBACK_IN_PROGRESS", "ROLLBACK_COMPLETE", "ROLLBACK_FAILED",
      "UPDATE_IN_PROGRESS", "UPDATE_COMPLETE_CLEANUP_IN_PROGRESS",
      "UPDATE_COMPLETE", "UPDATE_FAILED",
      "UPDATE_ROLLBACK_IN_PROGRESS",
      "UPDATE_ROLLBACK_COMPLETE_CLEANUP_IN_PROGRESS",
      "UPDATE_ROLLBACK_COMPLETE", "UPDATE_ROLLBACK_FAILED",
      "DELETE_COMPLETE" }

\* The status string split at "_" (a Python substring test on these strings
\* is a test for a contiguous run of words).
Words(status) ==
    CASE status = "CREATE_IN_PROGRESS"   -> <<"CREATE", "IN", "PROGRESS">>
      [] status = "CREATE_COMPLETE"      -> <<"CREATE", "COMPLETE">>
      [] status = "CREATE_FAILED"        -> <<"CREATE", "FAILED">>
      [] status = "ROLLBACK_IN_PROGRESS" -> <<"ROLLBACK", "IN", "PROGRESS">>
      [] status = "ROLLBACK_COMPLETE"    -> <<"ROLLBACK", "COMPLETE">>
      [] status = "ROLLBACK_FAILED"      -> <<"ROLLBACK", "FAILED">>
      [] status = "UPDATE_IN_PROGRESS"   -> <<"UPDATE", "IN", "PROGRESS">>
      [] status = "UPDATE_COMPLETE_CLEANUP_IN_PROGRESS"
            -> <<"UPDATE", "COMPLETE", "CLEANUP", "IN", "PROGRESS">>
      [] status = "UPDATE_COMPLETE"      -> <<"UPDATE", "COMPLETE">>
      [] status = "UPDATE_FAILED"        -> <<"UPDATE", "FAILED">>
      [] status = "UPDATE_ROLLBACK_IN_PROGRESS"
            -> <<"UPDATE", "ROLLBACK", "IN", "PROGRESS">>
      [] status = "UPDATE_ROLLBACK_COMPLETE_CLEANUP_IN_PROGRESS"
            -> <<"UPDATE", "ROLLBACK", "COMPLETE", "CLEANUP", "IN", "PROGRESS">>
      [] status = "UPDATE_ROLLBACK_COMPLETE"
            -> <<"UPDATE", "ROLLBACK", "COMPLETE">>
      [] status = "UPDATE_ROLLBACK_FAILED"
            -> <<"UPDATE", "ROLLBACK", "FAILED">>
      [] status = "DELETE_COMPLETE"      -> <<"DELETE", "COMPLETE">>
      [] OTHER                           -> <<status>>

\* marker in status  (Python: 'IN_PROGRESS' in stack_status)
Contains(status, marker) ==
    LET w == Words(status)
    IN  \E k \in 0..(Len(w) - Len(marker)) :
            \A j \in 1..Len(marker) : w[k + j] = marker[j]

\* One step of the control plane's stack life cycle.
StatusStep(s) ==
    CASE s = "CREATE_IN_PROGRESS"
            -> {"CREATE_COMPLETE", "CREATE_FAILED", "ROLLBACK_IN_PROGRESS"}
      [] s = "ROLLBACK_IN_PROGRESS"
            -> {"ROLLBACK_COMPLETE", "ROLLBACK_FAILED"}
      [] s = "UPDATE_IN_PROGRESS"
            -> {"UPDATE_COMPLETE_CLEANUP_IN_PROGRESS", "UPDATE_FAILED",
                "UPDATE_ROLLBACK_IN_PROGRESS"}
      [] s = "UPDATE_COMPLETE_CLEANUP_IN_PROGRESS" -> {"UPDATE_COMPLETE"}
      [] s = "UPDATE_ROLLBACK_IN_PROGRESS"
            -> {"UPDATE_ROLLBACK_COMPLETE_CLEANUP_IN_PROGRESS",
                "UPDATE_ROLLBACK_FAILED"}
      [] s = "UPDATE_ROLLBACK_COMPLETE_CLEANUP_IN_PROGRESS"
            -> {"UPDATE_ROLLBACK_COMPLETE"}
      [] OTHER -> {}

RECURSIVE StatusReach(_, _)
StatusReach(seen, n) ==
    IF n = 0 THEN seen
    ELSE StatusReach(seen \cup UNION {StatusStep(s) : s \in seen}, n - 1)

\* The statuses a stack in status s can be in at the next describe call
\* (any number of life-cycle steps happen during one poll interval).
Advance(s) == StatusReach({s}, Cardinality(StackStatuses))

\* A status in which the control plane has no operation in progress.
Settled(s) == s \in StackStatuses /\ StatusStep(s) = {}

\* Statuses a stack can have when a run starts.
InitStatuses == {NoStack, "CREATE_COMPLETE", "DELETE_COMPLETE"}

\* --------------------------------------------------- stacks configuration
StackName(project, kind, environment) ==
    project \o "-" \o kind \o "-" \o environment

\* --region default
DefaultRegion == "us-east-1"

\* sts get_caller_identity()['Account'] of the credentials the run uses
AccountIds == {"123456789012"}

\* main(): the name of the bucket the templates are uploaded to
DeploymentBucket(env, account_id) ==
    "f1-platform-cf-templates-" \o env \o "-" \o account_id

\* main(): the stacks list built from the parsed arguments
StacksConfig(args) ==
    LET foundation == StackName(args.project_name, "foundation", args.environment)
        common == [Environment |-> args.environment,
                   ProjectName |-> args.project_name]
    IN  << [name         |-> foundation,
            template     |-> "01-data-lake-foundation-fixed.yaml",
            template_dir |-> "gitops",
            parameters   |-> common @@ [DataLakeBucketName |-> "f1-data-lake"],
            capabilities |-> {"CAPABILITY_NAMED_IAM"},
            skip         |-> args.skip_foundation],
           [name         |-> StackName(args.project_name, "glue-etl", args.environment),
            template     |-> "02-glue-etl-jobs.yaml",
            template_dir |-> "showcase",
            parameters   |-> common @@ [DataLakeBucket |-> "",
                                        GlueDatabase |-> "",
                                        GlueServiceRoleArn |-> ""],
            capabilities |-> {},
            skip         |-> args.skip_glue,
            depends_on   |-> foundation],
           [name         |-> StackName(args.project_name, "athena-analytics", args.environment),
            template     |-> "03-athena-analytics.yaml",
            template_dir |-> "showcase",
            parameters   |-> common @@ [DataLakeBucket |-> "",
                                        GlueDatabase |-> "",
                                        AthenaWorkgroup |-> ""],
            capabilities |-> {},
            skip         |-> args.skip_athena,
            depends_on   |-> foundation],
           [name         |-> StackName(args.project_name, "access", args.environment),
            template     |-> "04-f1-data-platform-access-role.yaml",
            template_dir |-> "showcase",
            parameters   |-> common @@ [DataLakeBucket |-> "",
                                        GlueDatabase |-> "",
                                        AthenaResultsBucket |-> ""],
            capabilities |-> {"CAPABILITY_NAMED_IAM"},
            skip         |-> FALSE,
            depends_on   |-> foundation] >>

\* argparse result: environment, project name and the three skip flags
ArgsSpace ==
    [environment     : Environments,
     project_name    : {DefaultProjectName},
     skip_foundation : BOOLEAN,
     skip_glue       : BOOLEAN,
     skip_athena     : BOOLEAN]

\* ------------------------------------------------ outputs and parameters
\* The describe_stacks call of get_stack_outputs: it raises, or it returns
\* 'Stacks'[0] without an Outputs entry, with the two outputs of the dev scenario, or
\* with all five outputs the dependents read.
TwoOutputs ==
    << [OutputKey |-> "DataLakeBucketName", OutputValue |-> "f1-data-lake-dev"],
       [OutputKey |-> "GlueDatabaseName",   OutputValue |-> "f1_data_platform_dev"] >>

FiveOutputs ==
    TwoOutputs \o
    << [OutputKey |-> "GlueServiceRoleArn",      OutputValue |-> "arn:aws:iam::1:role/glue"],
       [OutputKey |-> "AthenaWorkgroupName",     OutputValue |-> "f1-workgroup-dev"],
       [OutputKey |-> "AthenaResultsBucketName", OutputValue |-> "f1-athena-results-dev"] >>

OutputResponses(status) ==
    { [Error |-> "ClientError"],
      [StackStatus |-> status],
      [StackStatus |-> status, Outputs |-> TwoOutputs],
      [StackStatus |-> status, Outputs |-> FiveOutputs] }

\* Variant: the error is returned as an entry of the dict.
get_stack_outputs_ErrorEntry(resp) ==
    IF "Error" \in DOMAIN resp THEN [Error |-> resp.Error]
    ELSE LET outputs == IF "Outputs" \in DOMAIN resp THEN resp.Outputs ELSE << >>
             keys    == {outputs[j].OutputKey : j \in DOMAIN outputs}
             last(k) == CHOOSE j \in DOMAIN outputs :
                           /\ outputs[j].OutputKey = k
                           /\ \A m \in DOMAIN outputs :
                                 outputs[m].OutputKey = k => m <= j
         IN  [k \in keys |-> outputs[last(k)].OutputValue]

\* get_stack_outputs: {} when describe raises, else the dict built from
\* response['Stacks'][0].get('Outputs', [])
get_stack_outputs(resp) ==
    IF "Error" \in DOMAIN resp THEN EmptyMap
    ELSE LET outputs == IF "Outputs" \in DOMAIN resp THEN resp.Outputs ELSE << >>
             keys    == {outputs[j].OutputKey : j \in DOMAIN outputs}
             last(k) == CHOOSE j \in DOMAIN outputs :
                           /\ outputs[j].OutputKey = k
                           /\ \A m \in DOMAIN outputs :
                                 outputs[m].OutputKey = k => m <= j
         IN  [k \in keys |-> outputs[last(k)].OutputValue]

\* dict.get(key, default)
Get(dict, key, default) == IF key \in DOMAIN dict THEN dict[key] ELSE default

\* Variant: GlueDatabase filled from the bucket-name output.
ParameterSource_Swapped ==
    [DataLakeBucket      |-> "DataLakeBucketName",
     GlueDatabase        |-> "DataLakeBucketName",
     GlueServiceRoleArn  |-> "GlueServiceRoleArn",
     AthenaWorkgroup     |-> "AthenaWorkgroupName",
     AthenaResultsBucket |-> "AthenaResultsBucketName"]

\* main(): which output of the dependency fills which parameter
ParameterSource ==
    [DataLakeBucket      |-> "DataLakeBucketName",
     GlueDatabase        |-> "GlueDatabaseName",
     GlueServiceRoleArn  |-> "GlueServiceRoleArn",
     AthenaWorkgroup     |-> "AthenaWorkgroupName",
     AthenaResultsBucket |-> "AthenaResultsBucketName"]

\* main(): the five "if key in parameters: parameters[key] = outputs.get(..)"
MapOutputs(parameters, outputs) ==
    [k \in DOMAIN parameters |->
        IF k \in DOMAIN ParameterSource
        THEN Get(outputs, ParameterSource[k], "")
        ELSE parameters[k]]

\* deploy_stack: parameters in CloudFormation format
cf_parameters(parameters) ==
    { [ParameterKey |-> k, ParameterValue |-> parameters[k]] :
        k \in DOMAIN parameters }

\* _stack_exists: False when describe raises, else status not DELETE_COMPLETE
_stack_exists(resp) ==
    IF resp = "error" THEN FALSE ELSE resp \notin {"DELETE_COMPLETE"}

\* _wait_for_stack_operation: the status lists of the poll loop
SuccessStatuses == {"CREATE_COMPLETE", "UPDATE_COMPLETE"}
FailureStatuses == {"CREATE_FAILED", "UPDATE_FAILED",
                    "ROLLBACK_COMPLETE", "UPDATE_ROLLBACK_COMPLETE"}
InProgress(status) == Contains(status, <<"IN", "PROGRESS">>)

\* ------------------------------------------------------------------ state
VARIABLES
    args,            \* main: the parsed command line
    stacks,          \* main: the list of stack descriptors (parameters mutate)
    deployed_stacks, \* main: stack name -> outputs
    i,               \* main: index of the descriptor the for loop is at
    pc,              \* position of the run
    template_url,    \* main: result of the last upload_template
    bucket_name,     \* main: the deployment bucket, made before the loop
    stack_exists,    \* deploy_stack: result of _stack_exists
    cf,              \* control plane: stack name -> status, for the stacks asked about
    polls,           \* sleeps of the current wait, saturating at MaxPolls
    notice,          \* the final notice: "none", "success" or "partial"
    printed,         \* messages printed so far, as <<kind, stack name>>
    uploads,         \* history: put_object calls per stack
    creates,         \* history: create_stack calls per stack
    updates,         \* history: update_stack calls per stack
    raised,          \* current deploy_stack call: the calls that raised
    issued_on,       \* current call: control-plane status when create/update was issued
    sent,            \* current call: Parameters passed to create/update
    stack_status,    \* _wait_for_stack_operation: the status last observed
    returned,        \* history: return value of deploy_stack, per stack
    events_for,      \* history: stacks describe_stack_events was called for
    fetched,         \* history: what get_stack_outputs returned, per stack
    response,        \* history: the last describe_stacks answer to get_stack_outputs
    dep_reads,       \* history: deployed_stacks[dependency] lookups, per dependent
    dep_writes,      \* history: deployed_stacks[name] = outputs assignments, per stack
    param_sets,      \* history: passes through the parameter assignments, per stack
    environment,        \* validator: self.environment
    vpc,                \* validator: position of the validation pass
    vi,                 \* validator: index in the list the current loop runs over
    validation_results, \* validator: self.validation_results
    answers,            \* history: what the services answered, per resource
    odd,                \* history: resources whose answer was not the healthy one
    success,            \* validator main: result of validate_all ("none" before)
    summary,            \* print_summary: the closing line ("none" before)
    exit_code           \* validator process: exit status (-1 while it runs)

vars == << args, stacks, deployed_stacks, i, pc, template_url, bucket_name,
           stack_exists, cf,
           polls, notice, printed, uploads, creates, updates, raised,
           issued_on, sent, stack_status, returned, events_for, fetched,
           response, dep_reads, dep_writes, param_sets,
           environment, vpc, vi, validation_results, answers, odd, success,
           summary, exit_code >>

\* the state of the validation script
vvars == << environment, vpc, vi, validation_results, answers, odd, success,
            summary, exit_code >>

history == << uploads, creates, updates, raised, issued_on, sent,
              stack_status, returned, events_for, fetched >>

\* use of the dependency-output cache
cache_use == << dep_reads, dep_writes, param_sets >>

\* no get_stack_outputs call yet in the current iteration
NoResponse == [stack |-> "-"]

Names == {stacks[k].name : k \in DOMAIN stacks}
cur  == stacks[i]

\* InfrastructureValidator.__init__: empty result lists; the pass starts with
\* the first expected stack.
ValidatorStart ==
    /\ environment = args.environment
    /\ vpc = "stacks"
    /\ vi = 1
    /\ validation_results = [passed |-> << >>, failed |-> << >>, warnings |-> << >>]
    /\ answers = EmptyMap
    /\ odd = 0
    /\ success = "none"
    /\ summary = "none"
    /\ exit_code = -1

Init ==
    /\ args \in ArgsSpace
    /\ ValidatorStart
    /\ stacks = StacksConfig(args)
    /\ deployed_stacks = EmptyMap
    /\ i = 1
    /\ pc = "loop"
    /\ template_url = ""
    /\ \E account_id \in AccountIds :
          bucket_name = DeploymentBucket(args.environment, account_id)
    /\ stack_exists = FALSE
    /\ cf = EmptyMap
    /\ polls = 0
    /\ notice = "none"
    /\ printed = {}
    /\ uploads = [n \in Names |-> 0]
    /\ creates = [n \in Names |-> 0]
    /\ updates = [n \in Names |-> 0]
    /\ raised = {}
    /\ issued_on = "-"
    /\ sent = {}
    /\ stack_status = "-"
    /\ returned = [n \in Names |-> "none"]
    /\ events_for = {}
    /\ fetched = EmptyMap
    /\ response = NoResponse
    /\ dep_reads = [n \in Names |-> 0]
    /\ dep_writes = [n \in Names |-> 0]
    /\ param_sets = [n \in Names |-> 0]

\* "continue" and the end of one loop body: the for loop moves to the next
\* descriptor, or to the summary after the last one.
Continue ==
    /\ i' = i + 1
    /\ pc' = IF i + 1 > Len(stacks) THEN "summary" ELSE "loop"

\* Variant: a failed deploy_stack does not end the loop.
Break_Continue(msgs) ==
    /\ returned' = [returned EXCEPT ![cur.name] = "False"]
    /\ printed' = printed \cup msgs \cup {<<"failed_to_deploy", cur.name>>}
    /\ Continue

\* "break" after deploy_stack returned False
Break(msgs) ==
    /\ returned' = [returned EXCEPT ![cur.name] = "False"]
    /\ printed' = printed \cup msgs \cup {<<"failed_to_deploy", cur.name>>}
    /\ pc' = "summary"
    /\ i' = i

\* ------------------------------------------------------------ main's loop
\* Variant: a skipped stack is taken as deployed, with no outputs.
SkipStack_Deployed ==
    /\ pc = "loop"
    /\ cur.skip
    /\ printed' = printed \cup {<<"skipping", cur.name>>}
    /\ deployed_stacks' = (cur.name :> EmptyMap) @@ deployed_stacks
    /\ Continue
    /\ UNCHANGED << vvars, bucket_name, response, cache_use, args, stacks,
                    template_url, stack_exists, cf, polls, notice, history >>

\* if stack_config['skip']: continue
SkipStack ==
    /\ pc = "loop"
    /\ cur.skip
    /\ printed' = printed \cup {<<"skipping", cur.name>>}
    /\ Continue
    /\ UNCHANGED << vvars, bucket_name,
                    response, cache_use, args, stacks, deployed_stacks, template_url, stack_exists, cf,
                    polls, notice, history >>

\* Variant: a missing template ends the loop.
TemplateNotFound_Break ==
    /\ pc = "loop"
    /\ ~cur.skip
    /\ printed' = printed \cup {<<"template_not_found", cur.name>>}
    /\ pc' = "summary"
    /\ UNCHANGED << vvars, bucket_name,
                    response, cache_use, args, stacks, deployed_stacks, i, template_url,
                    stack_exists, cf, polls, notice, history >>

\* if not template_path.exists(): continue
TemplateNotFound ==
    /\ pc = "loop"
    /\ ~cur.skip
    /\ printed' = printed \cup {<<"template_not_found", cur.name>>}
    /\ Continue
    /\ UNCHANGED << vvars, bucket_name,
                    response, cache_use, args, stacks, deployed_stacks, template_url, stack_exists, cf,
                    polls, notice, history >>

\* template_url = deployer.upload_template(template_path, bucket_name, "templates/")
UploadTemplate ==
    /\ pc = "loop"
    /\ ~cur.skip
    /\ uploads' = [uploads EXCEPT ![cur.name] = @ + 1]
    /\ template_url' = "https://" \o bucket_name \o ".s3." \o DefaultRegion
                        \o ".amazonaws.com/templates/" \o cur.template
    /\ pc' = "deps"
    /\ UNCHANGED << vvars, bucket_name,
                    response, cache_use, args, stacks, deployed_stacks, i, stack_exists, cf, polls,
                    notice, printed, creates, updates, raised, issued_on,
                    sent, stack_status, returned, events_for, fetched >>

\* a descriptor without 'depends_on' goes straight to deploy_stack
NoDependency ==
    /\ pc = "deps"
    /\ "depends_on" \notin DOMAIN cur
    /\ pc' = "exists"
    /\ UNCHANGED << vvars, bucket_name,
                    response, cache_use, args, stacks, deployed_stacks, i, template_url, stack_exists,
                    cf, polls, notice, printed, history >>

\* Variant: the dependent is deployed whether or not its dependency is in
\* deployed_stacks.
ResolveDependency_Unchecked ==
    /\ pc = "deps"
    /\ "depends_on" \in DOMAIN cur
    /\ stacks' = IF cur.depends_on \in DOMAIN deployed_stacks
                 THEN [stacks EXCEPT ![i].parameters =
                          MapOutputs(@, deployed_stacks[cur.depends_on])]
                 ELSE stacks
    /\ pc' = "exists"
    /\ UNCHANGED << vvars, bucket_name,
                    response, cache_use, args, deployed_stacks, i, template_url, stack_exists, cf,
                    polls, notice, printed, history >>

\* if dependency_stack in deployed_stacks: copy its outputs into the parameters
ResolveDependency ==
    /\ pc = "deps"
    /\ "depends_on" \in DOMAIN cur
    /\ cur.depends_on \in DOMAIN deployed_stacks
    /\ stacks' = [stacks EXCEPT ![i].parameters =
                     MapOutputs(@, deployed_stacks[cur.depends_on])]
    /\ dep_reads' = [dep_reads EXCEPT ![cur.name] = @ + 1]
    /\ param_sets' = [param_sets EXCEPT ![cur.name] = @ + 1]
    /\ pc' = "exists"
    /\ UNCHANGED << vvars, bucket_name,
                    response, dep_writes, args, deployed_stacks, i, template_url, stack_exists, cf,
                    polls, notice, printed, history >>

\* Variant: an unresolved dependency ends the loop.
DependencyNotFound_Break ==
    /\ pc = "deps"
    /\ "depends_on" \in DOMAIN cur
    /\ cur.depends_on \notin DOMAIN deployed_stacks
    /\ printed' = printed \cup {<<"dependency_not_found", cur.name>>}
    /\ pc' = "summary"
    /\ UNCHANGED << vvars, bucket_name,
                    response, cache_use, args, stacks, deployed_stacks, i, template_url,
                    stack_exists, cf, polls, notice, history >>

\* else: print "Dependency ... not found, skipping ..."; continue
DependencyNotFound ==
    /\ pc = "deps"
    /\ "depends_on" \in DOMAIN cur
    /\ cur.depends_on \notin DOMAIN deployed_stacks
    /\ printed' = printed \cup {<<"dependency_not_found", cur.name>>}
    /\ Continue
    /\ UNCHANGED << vvars, bucket_name,
                    response, cache_use, args, stacks, deployed_stacks, template_url, stack_exists, cf,
                    polls, notice, history >>

\* ------------------------------------------------------------ deploy_stack
\* What describe_stacks can answer for a stack in status s: it raises (always
\* for a stack the control plane does not know), or it returns a status the
\* stack has moved to.
DescribeAnswers(s) ==
    {"error"} \cup (IF s = NoStack THEN {} ELSE Advance(s))

\* stack_exists = self._stack_exists(stack_name)
StackExists ==
    /\ pc = "exists"
    /\ \E status \in InitStatuses : \E resp \in DescribeAnswers(status) :
          /\ stack_exists' = _stack_exists(resp)
          /\ cf' = (cur.name :> status) @@ cf
          /\ raised' = IF resp = "error" THEN {"describe_exists"} ELSE {}
    /\ issued_on' = "-"
    /\ sent' = {}
    /\ stack_status' = "-"
    /\ response' = NoResponse
    /\ pc' = "issue"
    /\ UNCHANGED << vvars, bucket_name,
                    cache_use, args, stacks, deployed_stacks, i, template_url, polls, notice,
                    printed, uploads, creates, updates, returned, events_for,
                    fetched >>

\* The control plane can accept create_stack only for a name it does not
\* hold (or holds as deleted), and update_stack only for a stack it holds;
\* either call can also raise for any other reason.
Acceptance(op, status) ==
    {FALSE} \cup
    (IF (op = "CREATE") = (status \in {NoStack, "DELETE_COMPLETE"})
     THEN {TRUE} ELSE {})

\* Variant: a call that raises is issued again.
Issue_Retry(op, accepted) ==
    /\ issued_on' = cf[cur.name]
    /\ sent' = cf_parameters(cur.parameters)
    /\ IF accepted
       THEN /\ cf' = [cf EXCEPT ![cur.name] = op \o "_IN_PROGRESS"]
            /\ pc' = "wait"
            /\ UNCHANGED << raised, returned, printed, i >>
       ELSE /\ raised' = raised \cup {op}
            /\ pc' = "issue"
            /\ UNCHANGED << cf, returned, printed, i >>
    /\ polls' = 0
    /\ UNCHANGED << vvars, bucket_name, response, cache_use, args, stacks, deployed_stacks,
                    template_url, stack_exists, notice, uploads, stack_status,
                    events_for, fetched >>

\* The call is accepted (the operation starts) or it raises, which
\* deploy_stack catches ("Failed to deploy <name>: <error>"): return False,
\* and main breaks.
Issue(op, accepted) ==
    /\ issued_on' = cf[cur.name]
    /\ sent' = cf_parameters(cur.parameters)
    /\ IF accepted
       THEN /\ cf' = [cf EXCEPT ![cur.name] = op \o "_IN_PROGRESS"]
            /\ pc' = "wait"
            /\ UNCHANGED << raised, returned, printed, i >>
       ELSE /\ raised' = raised \cup {op}
            /\ Break({<<"deploy_error", cur.name>>})
            /\ UNCHANGED cf
    /\ polls' = 0
    /\ UNCHANGED << vvars, bucket_name,
                    response, cache_use, args, stacks, deployed_stacks, template_url, stack_exists,
                    notice, uploads, stack_status, events_for, fetched >>

\* if stack_exists: self.cf_client.update_stack(...)
UpdateStack ==
    /\ pc = "issue"
    /\ stack_exists
    /\ updates' = [updates EXCEPT ![cur.name] = @ + 1]
    /\ \E accepted \in Acceptance("UPDATE", cf[cur.name]) : Issue("UPDATE", accepted)
    /\ UNCHANGED creates

\* else: self.cf_client.create_stack(...)
CreateStack ==
    /\ pc = "issue"
    /\ ~stack_exists
    /\ creates' = [creates EXCEPT ![cur.name] = @ + 1]
    /\ \E accepted \in Acceptance("CREATE", cf[cur.name]) : Issue("CREATE", accepted)
    /\ UNCHANGED updates

\* ---------------------------------------------- _wait_for_stack_operation
\* One describe_stacks call of the poll loop that returns stack_status.
Observe(status) ==
    /\ status \in DescribeAnswers(cf[cur.name]) \ {"error"}
    /\ cf' = [cf EXCEPT ![cur.name] = status]
    /\ stack_status' = status

\* except Exception: print "Error checking stack status"; return False
WaitError ==
    /\ pc = "wait"
    /\ raised' = raised \cup {"describe_wait"}
    /\ UNCHANGED stack_status
    /\ Break({<<"status_error", cur.name>>})
    /\ polls' = 0
    /\ UNCHANGED << vvars, bucket_name,
                    response, cache_use, args, stacks, deployed_stacks, template_url, stack_exists, cf,
                    notice, uploads, creates, updates, issued_on, sent,
                    events_for, fetched >>

\* stack_status in ['CREATE_COMPLETE', 'UPDATE_COMPLETE']: return True
WaitSucceeded ==
    /\ pc = "wait"
    /\ \E status \in SuccessStatuses : Observe(status)
    /\ returned' = [returned EXCEPT ![cur.name] = "True"]
    /\ pc' = "outputs"
    /\ polls' = 0
    /\ UNCHANGED << vvars, bucket_name,
                    response, cache_use, args, stacks, deployed_stacks, i, template_url, stack_exists,
                    notice, printed, uploads, creates, updates, raised,
                    issued_on, sent, events_for, fetched >>

\* stack_status in the failure list: print the events, then return False
WaitFailed ==
    /\ pc = "wait"
    /\ \E status \in FailureStatuses : Observe(status)
    /\ pc' = "events"
    /\ polls' = 0
    /\ UNCHANGED << vvars, bucket_name,
                    response, cache_use, args, stacks, deployed_stacks, i, template_url, stack_exists,
                    notice, printed, uploads, creates, updates, raised,
                    issued_on, sent, returned, events_for, fetched >>

\* 'IN_PROGRESS' in stack_status: sleep and poll again
WaitInProgress ==
    /\ pc = "wait"
    /\ \E status \in StackStatuses \ (SuccessStatuses \cup FailureStatuses) :
          /\ InProgress(status)
          /\ Observe(status)
    /\ pc' = "sleep"
    /\ UNCHANGED << vvars, bucket_name,
                    response, cache_use, args, stacks, deployed_stacks, i, template_url, stack_exists,
                    polls, notice, printed, uploads, creates, updates, raised,
                    issued_on, sent, returned, events_for, fetched >>

\* Variant: a status that is in neither list and not in progress ends the
\* wait with True.
WaitUnknown_Done ==
    /\ pc = "wait"
    /\ \E status \in StackStatuses \ (SuccessStatuses \cup FailureStatuses) :
          /\ ~InProgress(status)
          /\ Observe(status)
    /\ returned' = [returned EXCEPT ![cur.name] = "True"]
    /\ pc' = "outputs"
    /\ polls' = 0
    /\ UNCHANGED << vvars, bucket_name,
                    response, cache_use, args, stacks, deployed_stacks, i, template_url,
                    stack_exists, notice, printed, uploads, creates, updates,
                    raised, issued_on, sent, events_for, fetched >>

\* else: "Unknown stack status": sleep and poll again
WaitUnknown ==
    /\ pc = "wait"
    /\ \E status \in StackStatuses \ (SuccessStatuses \cup FailureStatuses) :
          /\ ~InProgress(status)
          /\ Observe(status)
    /\ pc' = "sleep"
    /\ UNCHANGED << vvars, bucket_name,
                    response, cache_use, args, stacks, deployed_stacks, i, template_url, stack_exists,
                    polls, notice, printed, uploads, creates, updates, raised,
                    issued_on, sent, returned, events_for, fetched >>

\* time.sleep(30), then the next iteration of "while True"
Sleep ==
    /\ pc = "sleep"
    /\ polls' = IF polls < MaxPolls THEN polls + 1 ELSE polls
    /\ pc' = "wait"
    /\ UNCHANGED << vvars, bucket_name,
                    response, cache_use, args, stacks, deployed_stacks, i, template_url, stack_exists,
                    cf, notice, printed, history >>

\* _print_stack_events: describe_stack_events returns (events printed) or
\* raises (caught, "Could not retrieve stack events"); the wait returns False.
PrintStackEvents ==
    /\ pc = "events"
    /\ events_for' = events_for \cup {cur.name}
    /\ \E ok \in BOOLEAN :
          Break({<< IF ok THEN "stack_events" ELSE "no_stack_events", cur.name >>})
    /\ UNCHANGED << vvars, bucket_name,
                    response, cache_use, args, stacks, deployed_stacks, template_url, stack_exists, cf,
                    polls, notice, uploads, creates, updates, raised,
                    issued_on, sent, stack_status, fetched >>

\* ----------------------------------------------- success branch and summary
\* Variant: the dict is replaced by one that holds the new entry only.
StoreOutputs_Replace ==
    /\ pc = "outputs"
    /\ \E resp \in OutputResponses(cf[cur.name]) :
          LET outputs == get_stack_outputs(resp)
          IN  /\ deployed_stacks' = (cur.name :> outputs)
              /\ fetched' = (cur.name :> outputs) @@ fetched
              /\ response' = [stack |-> cur.name, resp |-> resp]
              /\ printed' = printed \cup {<<"stack_outputs", cur.name>>}
    /\ dep_writes' = [dep_writes EXCEPT ![cur.name] = @ + 1]
    /\ Continue
    /\ UNCHANGED << vvars, bucket_name, dep_reads, param_sets, args, stacks, template_url,
                    stack_exists, cf, polls, notice, uploads, creates,
                    updates, raised, issued_on, sent, stack_status, returned,
                    events_for >>

\* Variant: the entry is stored without the outputs that were fetched.
StoreOutputs_Forget ==
    /\ pc = "outputs"
    /\ \E resp \in OutputResponses(cf[cur.name]) :
          LET outputs == get_stack_outputs(resp)
          IN  /\ deployed_stacks' = (cur.name :> EmptyMap) @@ deployed_stacks
              /\ fetched' = (cur.name :> outputs) @@ fetched
              /\ response' = [stack |-> cur.name, resp |-> resp]
              /\ printed' = printed \cup {<<"stack_outputs", cur.name>>}
    /\ dep_writes' = [dep_writes EXCEPT ![cur.name] = @ + 1]
    /\ Continue
    /\ UNCHANGED << vvars, bucket_name,
                    dep_reads, param_sets, args, stacks, template_url, stack_exists, cf, polls,
                    notice, uploads, creates, updates, raised, issued_on,
                    sent, stack_status, returned, events_for >>

\* outputs = deployer.get_stack_outputs(name); deployed_stacks[name] = outputs
StoreOutputs ==
    /\ pc = "outputs"
    /\ \E resp \in OutputResponses(cf[cur.name]) :
          LET outputs == get_stack_outputs(resp)
          IN  /\ deployed_stacks' = (cur.name :> outputs) @@ deployed_stacks
              /\ fetched' = (cur.name :> outputs) @@ fetched
              /\ response' = [stack |-> cur.name, resp |-> resp]
              /\ printed' = printed \cup {<<"stack_outputs", cur.name>>}
    /\ dep_writes' = [dep_writes EXCEPT ![cur.name] = @ + 1]
    /\ Continue
    /\ UNCHANGED << vvars, bucket_name,
                    dep_reads, param_sets, args, stacks, template_url, stack_exists, cf, polls, notice,
                    uploads, creates, updates, raised, issued_on, sent,
                    stack_status, returned, events_for >>

\* Variant: the deployed count is compared with the length of the whole list.
SummaryNotice_AllStacks(deployed, stack_list) ==
    IF Cardinality(DOMAIN deployed) = Len(stack_list)
    THEN "success" ELSE "partial"

\* Variant: "<=" for "==" in the comparison of the two counts.
SummaryNotice_AtMost(deployed, stack_list) ==
    IF Cardinality(DOMAIN deployed) <= Len(SelectSeq(stack_list, LAMBDA s : ~s.skip))
    THEN "success" ELSE "partial"

\* the notice main prints after the loop
SummaryNotice(deployed, stack_list) ==
    IF Cardinality(DOMAIN deployed) = Len(SelectSeq(stack_list, LAMBDA s : ~s.skip))
    THEN "success" ELSE "partial"

Summary ==
    /\ pc = "summary"
    /\ notice' = SummaryNotice(deployed_stacks, stacks)
    /\ pc' = "done"
    /\ UNCHANGED << vvars, bucket_name,
                    response, cache_use, args, stacks, deployed_stacks, i, template_url, stack_exists,
                    cf, polls, printed, history >>

Next ==
    \/ SkipStack
    \/ TemplateNotFound
    \/ UploadTemplate
    \/ NoDependency
    \/ ResolveDependency
    \/ DependencyNotFound
    \/ StackExists
    \/ UpdateStack
    \/ CreateStack
    \/ WaitError
    \/ WaitSucceeded
    \/ WaitFailed
    \/ WaitInProgress
    \/ WaitUnknown
    \/ Sleep
    \/ PrintStackEvents
    \/ StoreOutputs
    \/ Summary

Spec == Init /\ [][Next]_vars

\* The run is a single sequential process: it always takes its next step.
FairSpec == Spec /\ WF_vars(Next)

\* ============================================================= validator
\* validate-infrastructure.py: one validation pass of InfrastructureValidator.

\* most resources of one pass whose answer is not the healthy one
MaxOdd == 4

\* the state of the deployment script
dvars == << args, stacks, deployed_stacks, i, pc, template_url, bucket_name,
            stack_exists, cf,
            polls, notice, printed, history, response, cache_use >>

expected_stacks(env) ==
    << "f1-data-platform-foundation-" \o env,
       "f1-data-platform-glue-etl-" \o env,
       "f1-data-platform-athena-analytics-" \o env,
       "f1-data-platform-access-" \o env >>

expected_buckets(env) ==
    << "f1-data-lake-" \o env,
       "f1-data-platform-athena-results-" \o env,
       "f1-platform-cf-templates-" \o env >>

database_name(env)  == "f1-data-platform_" \o env
crawler_name(env)   == "f1-data-crawler-" \o env
workgroup_name(env) == "f1-data-platform-" \o env

expected_roles(env) ==
    << "f1-data-platform-glue-role-" \o env,
       "f1-data-platform-lambda-role-" \o env,
       "f1-data-platform-athena-role-" \o env >>

\* the answers of an environment in which everything is deployed as intended
HealthyStack     == [raises |-> "none", detail |-> "CREATE_COMPLETE"]
HealthyBucket    == [head |-> "ok", versioning |-> "Enabled", encryption |-> "ok"]
HealthyDatabase  == [raises |-> "none", detail |-> "-"]
HealthyCrawler   == [raises |-> "none", detail |-> "READY"]
HealthyWorkgroup == [raises |-> "none", detail |-> "ENABLED"]
HealthyRole      == [raises |-> "none", detail |-> "-"]

\* ---- what the services can answer
\* describe_stacks: a status, a ClientError (whose text says the stack does
\* not exist, or something else), or an error that is not a ClientError.
DescribedStatuses ==
    {"CREATE_COMPLETE", "UPDATE_ROLLBACK_COMPLETE", "CREATE_FAILED"}

StackAnswers ==
    [raises : {"none"}, detail : DescribedStatuses]
    \cup [raises : {"ClientError"}, detail : {"does not exist", "AccessDenied"}]
    \cup [raises : {"EndpointConnectionError"}, detail : {"-"}]

\* head_bucket, get_bucket_versioning, get_bucket_encryption: "-" for a call
\* that is not reached; versioning "absent" is a response without 'Status'.
BucketAnswers ==
    {HealthyBucket,
     [head |-> "ok", versioning |-> "Enabled", encryption |-> "ClientError"],
     [head |-> "ok", versioning |-> "absent", encryption |-> "ClientError"]}
    \cup [head : {"404", "403", "EndpointConnectionError"},
          versioning : {"-"}, encryption : {"-"}]
    \cup [head : {"ok"}, versioning : {"ClientError"}, encryption : {"-"}]

DatabaseAnswers ==
    [raises : {"none", "EntityNotFoundException", "InternalServiceException"},
     detail : {"-"}]

CrawlerAnswers ==
    [raises : {"none"}, detail : {"READY"}]
    \cup [raises : {"EntityNotFoundException", "InternalServiceException"},
          detail : {"-"}]

WorkgroupAnswers ==
    [raises : {"none"}, detail : {"ENABLED", "DISABLED"}]
    \cup [raises : {"InvalidRequestException", "InternalServerException"},
          detail : {"-"}]

RoleAnswers ==
    [raises : {"none", "NoSuchEntityException", "ServiceFailureException"},
     detail : {"-"}]

\* ---- the checks: the list an entry goes to ("raise": the error leaves the
\* check uncaught) and the entry, as <<kind, resource name, text>>
Entry(to, kind, name, text) == [to |-> to, msg |-> <<kind, name, text>>]

\* Variant: every status that contains COMPLETE is passed.
validate_stack_CompleteOnly(name, ans) ==
    IF ans.raises = "none"
    THEN IF Contains(ans.detail, <<"COMPLETE">>)
         THEN Entry("passed", "Stack", name, ans.detail)
         ELSE Entry("failed", "Stack", name, ans.detail)
    ELSE IF ans.raises = "ClientError"
    THEN IF ans.detail = "does not exist"
         THEN Entry("failed", "Stack", name, "NOT FOUND")
         ELSE Entry("failed", "Stack", name, "ERROR - " \o ans.detail)
    ELSE Entry("raise", "Stack", name, ans.raises)

\* validate_cloudformation_stacks, one expected stack
validate_stack(name, ans) ==
    IF ans.raises = "none"
    THEN IF Contains(ans.detail, <<"COMPLETE">>) /\ ~Contains(ans.detail, <<"ROLLBACK">>)
         THEN Entry("passed", "Stack", name, ans.detail)
         ELSE Entry("failed", "Stack", name, ans.detail)
    ELSE IF ans.raises = "ClientError"
    THEN IF ans.detail = "does not exist"
         THEN Entry("failed", "Stack", name, "NOT FOUND")
         ELSE Entry("failed", "Stack", name, "ERROR - " \o ans.detail)
    ELSE Entry("raise", "Stack", name, ans.raises)

\* versioning.get('Status', 'Disabled')
versioning_status(ans) ==
    IF ans.versioning = "absent" THEN "Disabled" ELSE ans.versioning

\* Variant: a bucket that answers is passed whatever its configuration.
validate_bucket_ExistsPasses(name, ans) ==
    IF ans.head = "EndpointConnectionError"
    THEN Entry("raise", "Bucket", name, ans.head)
    ELSE IF ans.head = "404"
    THEN Entry("failed", "Bucket", name, "NOT FOUND")
    ELSE IF ans.head # "ok"
    THEN Entry("failed", "Bucket", name, "ERROR - " \o ans.head)
    ELSE IF ans.versioning = "ClientError"
    THEN Entry("failed", "Bucket", name, "ERROR - " \o ans.versioning)
    ELSE Entry("passed", "Bucket", name,
               "Versioning=" \o versioning_status(ans) \o ", Encryption=Enabled")

\* validate_s3_buckets, one expected bucket
validate_bucket(name, ans) ==
    IF ans.head = "EndpointConnectionError"
    THEN Entry("raise", "Bucket", name, ans.head)
    ELSE IF ans.head = "404"
    THEN Entry("failed", "Bucket", name, "NOT FOUND")
    ELSE IF ans.head # "ok"
    THEN Entry("failed", "Bucket", name, "ERROR - " \o ans.head)
    ELSE IF ans.versioning = "ClientError"
    THEN Entry("failed", "Bucket", name, "ERROR - " \o ans.versioning)
    ELSE LET encryption_enabled == ans.encryption = "ok"
             text == "Versioning=" \o versioning_status(ans) \o ", Encryption="
                     \o (IF encryption_enabled THEN "Enabled" ELSE "Disabled")
         IN  IF versioning_status(ans) = "Enabled" /\ encryption_enabled
             THEN Entry("passed", "Bucket", name, text)
             ELSE Entry("warnings", "Bucket", name, text)

\* Variant: a present database is passed, anything else is left out.
validate_database_Lenient(name, ans) ==
    IF ans.raises = "none"
    THEN Entry("passed", "Glue Database", name, "EXISTS")
    ELSE IF ans.raises = "EntityNotFoundException"
    THEN Entry("warnings", "Glue Database", name, "NOT FOUND")
    ELSE Entry("raise", "Glue Database", name, ans.raises)

\* validate_glue_resources, the database
validate_database(name, ans) ==
    IF ans.raises = "none"
    THEN Entry("passed", "Glue Database", name, "EXISTS")
    ELSE IF ans.raises = "EntityNotFoundException"
    THEN Entry("failed", "Glue Database", name, "NOT FOUND")
    ELSE Entry("raise", "Glue Database", name, ans.raises)

\* Variant: a missing crawler is a failure.
validate_crawler_Required(name, ans) ==
    IF ans.raises = "none"
    THEN Entry("passed", "Glue Crawler", name, ans.detail)
    ELSE IF ans.raises = "EntityNotFoundException"
    THEN Entry("failed", "Glue Crawler", name, "NOT FOUND")
    ELSE Entry("raise", "Glue Crawler", name, ans.raises)

\* validate_glue_resources, the crawler
validate_crawler(name, ans) ==
    IF ans.raises = "none"
    THEN Entry("passed", "Glue Crawler", name, ans.detail)
    ELSE IF ans.raises = "EntityNotFoundException"
    THEN Entry("warnings", "Glue Crawler", name, "NOT FOUND (optional)")
    ELSE Entry("raise", "Glue Crawler", name, ans.raises)

\* validate_athena_resources
validate_workgroup(name, ans) ==
    IF ans.raises = "none"
    THEN IF ans.detail = "ENABLED"
         THEN Entry("passed", "Athena Workgroup", name, ans.detail)
         ELSE Entry("warnings", "Athena Workgroup", name, ans.detail)
    ELSE IF ans.raises = "InvalidRequestException"
    THEN Entry("failed", "Athena Workgroup", name, "NOT FOUND")
    ELSE Entry("raise", "Athena Workgroup", name, ans.raises)

\* validate_iam_resources, one expected role
validate_role(name, ans) ==
    IF ans.raises = "none"
    THEN Entry("passed", "IAM Role", name, "EXISTS")
    ELSE IF ans.raises = "NoSuchEntityException"
    THEN Entry("warnings", "IAM Role", name, "NOT FOUND (may use default naming)")
    ELSE Entry("raise", "IAM Role", name, ans.raises)

\* ---- the pass
\* The service answers for one resource.
Answer(kind, name, ans, healthy) ==
    /\ ans = healthy \/ odd < MaxOdd
    /\ odd' = IF ans = healthy THEN odd ELSE odd + 1
    /\ answers' = (<<kind, name>> :> ans) @@ answers

\* The entry is appended and the pass goes on; an error no except clause
\* matches leaves validate_all and main, and the interpreter exits with 1.
Record(out, next_vpc, next_vi) ==
    IF out.to = "raise"
    THEN /\ vpc' = "crashed"
         /\ exit_code' = 1
         /\ UNCHANGED << vi, validation_results >>
    ELSE /\ validation_results' =
                [validation_results EXCEPT ![out.to] = Append(@, out.msg)]
         /\ vpc' = next_vpc
         /\ vi' = next_vi
         /\ UNCHANGED exit_code

ValidateStack ==
    /\ vpc = "stacks"
    /\ LET list == expected_stacks(environment)
           last == vi = Len(list)
       IN  \E ans \in StackAnswers :
              /\ Answer("Stack", list[vi], ans, HealthyStack)
              /\ Record(validate_stack(list[vi], ans),
                        IF last THEN "buckets" ELSE "stacks",
                        IF last THEN 1 ELSE vi + 1)
    /\ UNCHANGED << dvars, environment, success, summary >>

ValidateBucket ==
    /\ vpc = "buckets"
    /\ LET list == expected_buckets(environment)
           last == vi = Len(list)
       IN  \E ans \in BucketAnswers :
              /\ Answer("Bucket", list[vi], ans, HealthyBucket)
              /\ Record(validate_bucket(list[vi], ans),
                        IF last THEN "database" ELSE "buckets",
                        IF last THEN 1 ELSE vi + 1)
    /\ UNCHANGED << dvars, environment, success, summary >>

ValidateDatabase ==
    /\ vpc = "database"
    /\ \E ans \in DatabaseAnswers :
          /\ Answer("Glue Database", database_name(environment), ans, HealthyDatabase)
          /\ Record(validate_database(database_name(environment), ans), "crawler", vi)
    /\ UNCHANGED << dvars, environment, success, summary >>

ValidateCrawler ==
    /\ vpc = "crawler"
    /\ \E ans \in CrawlerAnswers :
          /\ Answer("Glue Crawler", crawler_name(environment), ans, HealthyCrawler)
          /\ Record(validate_crawler(crawler_name(environment), ans), "workgroup", vi)
    /\ UNCHANGED << dvars, environment, success, summary >>

ValidateWorkgroup ==
    /\ vpc = "workgroup"
    /\ \E ans \in WorkgroupAnswers :
          /\ Answer("Athena Workgroup", workgroup_name(environment), ans, HealthyWorkgroup)
          /\ Record(validate_workgroup(workgroup_name(environment), ans), "roles", 1)
    /\ UNCHANGED << dvars, environment, success, summary >>

ValidateRole ==
    /\ vpc = "roles"
    /\ LET list == expected_roles(environment)
           last == vi = Len(list)
       IN  \E ans \in RoleAnswers :
              /\ Answer("IAM Role", list[vi], ans, HealthyRole)
              /\ Record(validate_role(list[vi], ans),
                        IF last THEN "summary" ELSE "roles",
                        IF last THEN 1 ELSE vi + 1)
    /\ UNCHANGED << dvars, environment, success, summary >>

\* print_summary: the closing line
PrintSummary ==
    /\ vpc = "summary"
    /\ summary' = IF Len(validation_results.failed) = 0
                  THEN "all_passed" ELSE "some_failed"
    /\ vpc' = "return"
    /\ UNCHANGED << dvars, environment, vi, validation_results, answers, odd,
                    success, exit_code >>

\* validate_all returns len(failed) == 0 to main
ValidateAllReturns ==
    /\ vpc = "return"
    /\ success' = IF Len(validation_results.failed) = 0 THEN "True" ELSE "False"
    /\ vpc' = "exit"
    /\ UNCHANGED << dvars, environment, vi, validation_results, answers, odd,
                    summary, exit_code >>

\* sys.exit(0 if success else 1)
Exit ==
    /\ vpc = "exit"
    /\ exit_code' = IF success = "True" THEN 0 ELSE 1
    /\ vpc' = "exited"
    /\ UNCHANGED << dvars, environment, vi, validation_results, answers, odd,
                    success, summary >>

\* One run of the validation script; the deployment script is not running.
VInit ==
    /\ Init
    /\ ~args.skip_foundation /\ ~args.skip_glue /\ ~args.skip_athena

VNext ==
    \/ ValidateStack
    \/ ValidateBucket
    \/ ValidateDatabase
    \/ ValidateCrawler
    \/ ValidateWorkgroup
    \/ ValidateRole
    \/ PrintSummary
    \/ ValidateAllReturns
    \/ Exit

VSpec == VInit /\ [][VNext]_vars

TypeOK ==
    /\ i \in 1..(Len(stacks) + 1)
    /\ pc \in {"loop", "deps", "exists", "issue", "wait", "sleep", "events",
               "outputs", "summary", "done"}
    /\ notice \in {"none", "success", "partial"}
    /\ DOMAIN cf \subseteq Names
    /\ \A n \in DOMAIN cf : cf[n] \in StackStatuses \cup {NoStack}
    /\ polls \in 0..MaxPolls
    /\ vpc \in {"stacks", "buckets", "database", "crawler", "workgroup", "roles",
                "summary", "return", "exit", "exited", "crashed"}
    /\ vi \in 1..4
    /\ odd \in 0..MaxOdd
    /\ success \in {"none", "True", "False"}
    /\ summary \in {"none", "all_passed", "some_failed"}
    /\ exit_code \in {-1, 0, 1}

\* ================================================================ properties
\* create_stack/update_stack calls issued for stack n in this run
Attempts(n) == creates[n] + updates[n]

\* no upload, create or update call was made for stack n
Untouched(n) == uploads[n] = 0 /\ creates[n] = 0 /\ updates[n] = 0

\* no upload, create or update call was made for a stack after position k
LaterUntouched(k) ==
    \A m \in DOMAIN stacks : m > k => Untouched(stacks[m].name)

\* the deploy_stack call for the descriptor at i has returned (i stays on a
\* descriptor after the loop only when the loop was left by "break")
CallReturned == i \in DOMAIN stacks /\ pc \in {"outputs", "summary", "done"}

\* the loop has left the descriptor at position k behind
Passed(k) == i > k \/ pc \in {"summary", "done"}

\* C1: create_stack/update_stack is issued for a descriptor with a depends_on
\* reference only if the dependency is a key of deployed_stacks (its
\* deploy_stack call returned True earlier in the run); while the dependency
\* is not a key, the dependent's attempt count is zero.
C1_DependencyDeployedFirst ==
    \A k \in DOMAIN stacks :
        "depends_on" \in DOMAIN stacks[k] =>
            /\ Attempts(stacks[k].name) > 0 =>
                  /\ stacks[k].depends_on \in DOMAIN deployed_stacks
                  /\ returned[stacks[k].depends_on] = "True"
            /\ stacks[k].depends_on \notin DOMAIN deployed_stacks =>
                  Attempts(stacks[k].name) = 0

\* create_stack or update_stack has just been issued for a dependent
C1_Witness ==
    /\ pc = "wait"
    /\ "depends_on" \in DOMAIN cur
    /\ Attempts(cur.name) = 1
    /\ cur.depends_on \in DOMAIN deployed_stacks

\* C2 as stated: every error raised by a create, update or describe call of
\* a deploy_stack call, the existence describe included, makes that call
\* return False, and no later stack is uploaded, created or updated.
C2_AnyErrorFails ==
    (CallReturned /\ raised # {}) =>
        /\ returned[cur.name] = "False"
        /\ LaterUntouched(i)

\* C2 amended: an error raised by create_stack, update_stack or a describe
\* call of the wait makes deploy_stack return False after a single create or
\* update call, and no later stack is uploaded, created or updated; an error
\* raised by the existence describe is read as "the stack does not exist"
\* (create_stack is issued) and by itself fails nothing.
C2_CallErrorFails ==
    /\ \A k \in DOMAIN stacks :
          (\E kind \in {"deploy_error", "status_error"} :
                <<kind, stacks[k].name>> \in printed) =>
              /\ returned[stacks[k].name] = "False"
              /\ Attempts(stacks[k].name) = 1
              /\ LaterUntouched(k)
    /\ (pc \in {"wait", "sleep"} /\ raised # {}) => raised = {"describe_exists"}
    /\ (i \in DOMAIN stacks /\ "describe_exists" \in raised) =>
          /\ pc = "issue" => ~stack_exists
          /\ pc \in {"wait", "sleep", "events", "outputs"} =>
                creates[cur.name] = 1 /\ updates[cur.name] = 0

\* the wait's describe raised for the first stack while a later stack was
\* not skipped, and the run has ended
C2_Witness ==
    /\ pc = "done"
    /\ i = 1
    /\ "describe_wait" \in raised
    /\ <<"status_error", stacks[1].name>> \in printed
    /\ ~stacks[2].skip

\* a failure of the descriptor at position k was printed
Failure(k) ==
    \E kind \in {"template_not_found", "dependency_not_found", "failed_to_deploy"} :
        <<kind, stacks[k].name>> \in printed

\* C3 as stated: after any failure (template not found, unresolved
\* dependency, failed deploy_stack) no later stack is uploaded, created or
\* updated.
C3_AnyFailureAborts ==
    \A k \in DOMAIN stacks : Failure(k) => LaterUntouched(k)

\* C3 amended: when deploy_stack fails for a stack (create/update/describe
\* error or a listed failure/rollback status) the loop is left at once: no
\* later stack is uploaded, created or updated; a template that is not found
\* or an unresolved dependency does not end the loop; after a failure of any
\* of these kinds the run ends with the partial-failure notice.
C3_DeployFailureAborts ==
    \A k \in DOMAIN stacks :
        /\ <<"failed_to_deploy", stacks[k].name>> \in printed =>
              /\ i = k
              /\ pc \in {"summary", "done"}
              /\ returned[stacks[k].name] = "False"
              /\ LaterUntouched(k)
        /\ (Failure(k) /\ <<"failed_to_deploy", stacks[k].name>> \notin printed) =>
              i > k
        /\ Failure(k) =>
              /\ notice # "success"
              /\ pc = "done" => notice = "partial"

\* the first stack ended in a listed failure status while a later stack was
\* not skipped, and the run has ended
C3_Witness ==
    /\ pc = "done"
    /\ i = 1
    /\ stack_status \in FailureStatuses
    /\ <<"failed_to_deploy", stacks[1].name>> \in printed
    /\ ~stacks[2].skip
    /\ notice = "partial"

\* C4: a non-skipped stack whose template file is absent gets no upload,
\* create or update call and is never a key of deployed_stacks, and the
\* loop goes on with the next descriptor: the run ends only at the end of
\* the list or by a later stack's failed deploy_stack.
C4_MissingTemplateContinues ==
    \A k \in DOMAIN stacks :
        <<"template_not_found", stacks[k].name>> \in printed =>
            /\ ~stacks[k].skip
            /\ Untouched(stacks[k].name)
            /\ stacks[k].name \notin DOMAIN deployed_stacks
            /\ i > k
            /\ (pc \in {"summary", "done"} /\ i \in DOMAIN stacks) =>
                  <<"failed_to_deploy", cur.name>> \in printed

\* the first stack's template was missing and the second stack was uploaded
C4_Witness ==
    /\ <<"template_not_found", stacks[1].name>> \in printed
    /\ uploads[stacks[2].name] = 1

\* C5: a stack whose template was uploaded and whose dependency is not a key
\* of deployed_stacks is reported ("Dependency ... not found"), is not
\* created, updated or recorded, and the loop goes on with the next
\* descriptor; the run then ends with the partial-failure notice.
C5_UnresolvedDependencyContinues ==
    \A k \in DOMAIN stacks :
        ( /\ "depends_on" \in DOMAIN stacks[k]
          /\ uploads[stacks[k].name] > 0
          /\ Passed(k) \/ (i = k /\ pc \notin {"loop", "deps"})
          /\ stacks[k].depends_on \notin DOMAIN deployed_stacks ) =>
            /\ <<"dependency_not_found", stacks[k].name>> \in printed
            /\ Attempts(stacks[k].name) = 0
            /\ stacks[k].name \notin DOMAIN deployed_stacks
            /\ i > k
            /\ notice # "success"
            /\ pc = "done" => notice = "partial"

\* two dependents in a row were passed over for the missing dependency and
\* the run ended with the partial-failure notice
C5_Witness ==
    /\ pc = "done"
    /\ notice = "partial"
    /\ <<"dependency_not_found", stacks[2].name>> \in printed
    /\ <<"dependency_not_found", stacks[3].name>> \in printed
    /\ uploads[stacks[4].name] = 1

\* C6 as stated: under fair polling the wait ends once the stack has reached
\* a status with no operation in progress (a success status, or any failure
\* or rollback status of the control plane).
C6_WaitEndsOnceSettled ==
    (pc \in {"wait", "sleep"} /\ Settled(cf[cur.name]))
        ~> (pc \notin {"wait", "sleep"})

\* the current deploy_stack call has issued its create or update
InCall ==
    /\ i \in DOMAIN stacks
    /\ pc \in {"wait", "sleep", "events", "outputs", "summary", "done"}

\* C7: the wait returns True only on an observed CREATE_COMPLETE or
\* UPDATE_COMPLETE, returns False only on an observed CREATE_FAILED,
\* UPDATE_FAILED, ROLLBACK_COMPLETE or UPDATE_ROLLBACK_COMPLETE (after the
\* events call) or on a raised error, and after every other observed status
\* it sleeps and polls again, however many polls there have been; so
\* deploy_stack returned True only for stacks last seen in a success status.
C7_WaitReturnsOnlyOnListedStatus ==
    /\ [](/\ pc = "outputs" =>
                /\ stack_status \in {"CREATE_COMPLETE", "UPDATE_COMPLETE"}
                /\ returned[cur.name] = "True"
          /\ pc = "events" =>
                stack_status \in {"CREATE_FAILED", "UPDATE_FAILED",
                                  "ROLLBACK_COMPLETE", "UPDATE_ROLLBACK_COMPLETE"}
          /\ pc = "sleep" =>
                stack_status \notin {"CREATE_COMPLETE", "UPDATE_COMPLETE",
                                     "CREATE_FAILED", "UPDATE_FAILED",
                                     "ROLLBACK_COMPLETE", "UPDATE_ROLLBACK_COMPLETE"}
          /\ \A n \in Names :
                returned[n] = "True" =>
                    cf[n] \in {"CREATE_COMPLETE", "UPDATE_COMPLETE"}
          /\ (InCall /\ returned[cur.name] = "False") =>
                \/ <<"deploy_error", cur.name>> \in printed
                \/ <<"status_error", cur.name>> \in printed
                \/ /\ stack_status \in {"CREATE_FAILED", "UPDATE_FAILED",
                                        "ROLLBACK_COMPLETE",
                                        "UPDATE_ROLLBACK_COMPLETE"}
                   /\ cur.name \in events_for)
    /\ [][pc = "sleep" => (pc' = "wait" /\ i' = i)]_vars

\* the wait is still polling after MaxPolls sleeps, on a status that is
\* neither listed nor in progress
C7_Witness ==
    /\ pc = "sleep"
    /\ polls = MaxPolls
    /\ stack_status = "ROLLBACK_FAILED"

\* C8 as stated: deploy_stack issues exactly one call, update_stack when the
\* stack exists in a non-deleted state and create_stack when it is absent or
\* DELETE_COMPLETE.
C8_UpdateIffExists ==
    InCall =>
        /\ Attempts(cur.name) = 1
        /\ IF issued_on \in {NoStack, "DELETE_COMPLETE"}
           THEN creates[cur.name] = 1 /\ updates[cur.name] = 0
           ELSE updates[cur.name] = 1 /\ creates[cur.name] = 0

\* C9: the Parameters of the create/update call for a dependent stack are
\* its configured parameters, except that DataLakeBucket, GlueDatabase,
\* GlueServiceRoleArn, AthenaWorkgroup and AthenaResultsBucket (where
\* declared) carry the dependency's recorded outputs DataLakeBucketName,
\* GlueDatabaseName, GlueServiceRoleArn, AthenaWorkgroupName and
\* AthenaResultsBucketName, or "" where the output is missing.
C9_ParametersFromDependency ==
    (InCall /\ "depends_on" \in DOMAIN cur) =>
        LET outputs    == deployed_stacks[cur.depends_on]
            configured == StacksConfig(args)[i].parameters
            Expected(k) ==
                CASE k = "DataLakeBucket"
                        -> Get(outputs, "DataLakeBucketName", "")
                  [] k = "GlueDatabase"
                        -> Get(outputs, "GlueDatabaseName", "")
                  [] k = "GlueServiceRoleArn"
                        -> Get(outputs, "GlueServiceRoleArn", "")
                  [] k = "AthenaWorkgroup"
                        -> Get(outputs, "AthenaWorkgroupName", "")
                  [] k = "AthenaResultsBucket"
                        -> Get(outputs, "AthenaResultsBucketName", "")
                  [] OTHER -> configured[k]
        IN  sent = { [ParameterKey |-> k, ParameterValue |-> Expected(k)] :
                        k \in DOMAIN configured }

\* the dev scenario: the foundation stack's two outputs have reached the
\* create/update call of the ETL stack, whose third parameter is ""
C9_Witness ==
    /\ pc = "wait"
    /\ i = 2
    /\ DOMAIN deployed_stacks[stacks[1].name] =
          {"DataLakeBucketName", "GlueDatabaseName"}
    /\ [ParameterKey |-> "DataLakeBucket",
        ParameterValue |-> "f1-data-lake-dev"] \in sent
    /\ [ParameterKey |-> "GlueDatabase",
        ParameterValue |-> "f1_data_platform_dev"] \in sent
    /\ [ParameterKey |-> "GlueServiceRoleArn", ParameterValue |-> ""] \in sent
    /\ [ParameterKey |-> "Environment", ParameterValue |-> "dev"] \in sent

\* C10: the keys of deployed_stacks are the stacks whose deploy_stack call
\* returned True (the entry is stored in the step that follows the return,
\* while the loop is still at that stack and no later stack has been
\* touched), none of them skipped, without template, without dependency or
\* failed, each mapped to what get_stack_outputs returned for it.
C10_DeployedAreSucceeded ==
    /\ \A n \in DOMAIN deployed_stacks :
          /\ n \in Names
          /\ returned[n] = "True"
          /\ n \in DOMAIN fetched
          /\ deployed_stacks[n] = fetched[n]
          /\ \A kind \in {"skipping", "template_not_found",
                          "dependency_not_found", "failed_to_deploy"} :
                <<kind, n>> \notin printed
    /\ \A n \in Names :
          returned[n] = "True" =>
              \/ n \in DOMAIN deployed_stacks
              \/ /\ pc = "outputs"
                 /\ cur.name = n
                 /\ LaterUntouched(i)

\* two stacks are recorded with the outputs fetched for them, the first with
\* outputs, while a third stack has failed
C10_Witness ==
    /\ pc = "done"
    /\ Cardinality(DOMAIN deployed_stacks) = 2
    /\ deployed_stacks[stacks[1].name] # EmptyMap
    /\ \E n \in Names : returned[n] = "False"

\* position of the stack named n in the list
Pos(n) == CHOOSE k \in DOMAIN stacks : stacks[k].name = n

\* C11: the mapping recorded for a stack that reached a success status is
\* non-empty only if the describe answer carried outputs; an answer without
\* outputs (or a raised error) gives the empty mapping, the stack is still a
\* key of deployed_stacks, no failure is printed for it and the loop goes on;
\* when every non-skipped stack is deployed the notice is the success one.
C11_OutputsOnlyIfReported ==
    response # NoResponse =>
        LET n    == response.stack
            resp == response.resp
        IN  /\ returned[n] = "True"
            /\ cf[n] \in {"CREATE_COMPLETE", "UPDATE_COMPLETE"}
            /\ n \in DOMAIN deployed_stacks
            /\ deployed_stacks[n] # EmptyMap =>
                  /\ "Outputs" \in DOMAIN resp
                  /\ Len(resp.Outputs) > 0
            /\ "Outputs" \notin DOMAIN resp => deployed_stacks[n] = EmptyMap
            /\ <<"failed_to_deploy", n>> \notin printed
            /\ i > Pos(n)
            /\ (pc = "done" /\ i > Len(stacks)) =>
                  (notice = "success") =
                      (\A k \in DOMAIN stacks :
                          stacks[k].skip \/ stacks[k].name \in DOMAIN deployed_stacks)

\* the answer for the last stack carried no Outputs entry, its mapping is
\* empty, and the run ended with the success notice
C11_Witness ==
    /\ pc = "done"
    /\ notice = "success"
    /\ response # NoResponse
    /\ response.stack = stacks[4].name
    /\ DOMAIN response.resp = {"StackStatus"}
    /\ deployed_stacks[stacks[4].name] = EmptyMap

\* C12: at the end of the run the success notice is printed exactly when
\* every stack not marked skip is a key of deployed_stacks after a deploy_stack
\* call that returned True; otherwise, and after every missing template,
\* unresolved dependency or failed deployment, the partial-failure notice.
C12_SuccessIffAllDeployed ==
    pc = "done" =>
        /\ notice \in {"success", "partial"}
        /\ (notice = "success") =
              (\A k \in DOMAIN stacks :
                  ~stacks[k].skip =>
                      /\ returned[stacks[k].name] = "True"
                      /\ stacks[k].name \in DOMAIN deployed_stacks)
        /\ (notice = "success") =
              (Cardinality({n \in Names : returned[n] = "True"}) =
               Cardinality({k \in DOMAIN stacks : ~stacks[k].skip}))
        /\ (\E k \in DOMAIN stacks : Failure(k)) => notice = "partial"

\* a run with one stack skipped and the three others deployed ended with the
\* success notice
C12_Witness ==
    /\ pc = "done"
    /\ notice = "success"
    /\ stacks[2].skip
    /\ Cardinality(DOMAIN deployed_stacks) = 3

\* C19: every stack gets at most one create-or-update call (and one upload)
\* in a run; calls are issued in list order, so no stack after the loop
\* position has one; and a stack gets its call only when every earlier stack
\* that got one has had deploy_stack return True.
C19_NoRetriesInOrder ==
    /\ \A n \in Names : Attempts(n) <= 1 /\ uploads[n] <= 1
    /\ \A m \in DOMAIN stacks : m > i => Attempts(stacks[m].name) = 0
    /\ \A k, m \in DOMAIN stacks :
          (k < m /\ Attempts(stacks[k].name) > 0 /\ Attempts(stacks[m].name) > 0) =>
              /\ returned[stacks[k].name] = "True"
              /\ cf[stacks[k].name] \in {"CREATE_COMPLETE", "UPDATE_COMPLETE"}

\* the third stack's call has been issued after the calls of the first two
C19_Witness ==
    /\ pc = "wait"
    /\ i = 3
    /\ Attempts(stacks[1].name) = 1
    /\ Attempts(stacks[2].name) = 1
    /\ Attempts(stacks[3].name) = 1

\* C20: deployed_stacks gets one assignment per key and none for any other
\* stack, an entry never changes or disappears once written, every dependent
\* looks its dependency up at most once and has its parameters assigned at
\* most once, and a descriptor without depends_on (or not yet resolved)
\* keeps its configured parameters.
C20_CacheWrittenOnce ==
    /\ [](/\ \A n \in Names :
                /\ dep_writes[n] = (IF n \in DOMAIN deployed_stacks THEN 1 ELSE 0)
                /\ dep_reads[n] <= 1
                /\ param_sets[n] <= 1
          /\ \A k \in DOMAIN stacks :
                /\ "depends_on" \notin DOMAIN stacks[k] =>
                      /\ dep_reads[stacks[k].name] = 0
                      /\ param_sets[stacks[k].name] = 0
                /\ param_sets[stacks[k].name] = 0 =>
                      stacks[k].parameters = StacksConfig(args)[k].parameters)
    /\ [][\A n \in DOMAIN deployed_stacks :
              /\ n \in DOMAIN deployed_stacks'
              /\ deployed_stacks'[n] = deployed_stacks[n]]_vars

\* the foundation entry was written once and read by each of the three
\* dependents, whose parameters were assigned once
C20_Witness ==
    /\ pc = "done"
    /\ dep_writes[stacks[1].name] = 1
    /\ \A k \in 2..4 :
          /\ dep_reads[stacks[k].name] = 1
          /\ param_sets[stacks[k].name] = 1
    /\ stacks[2].parameters # StacksConfig(args)[2].parameters

\* ------------------------------------------------- validator properties
\* entries the list coll holds for a resource
EntriesIn(coll, kind, name) ==
    Cardinality({j \in DOMAIN validation_results[coll] :
                    /\ validation_results[coll][j][1] = kind
                    /\ validation_results[coll][j][2] = name})

\* the resource has one entry, in the list coll, and none in the other two
OnlyIn(coll, kind, name) ==
    \A c \in {"passed", "failed", "warnings"} :
        EntriesIn(c, kind, name) = (IF c = coll THEN 1 ELSE 0)

\* the service has been asked about the resource
Asked(kind, name) == <<kind, name>> \in DOMAIN answers

\* the 13 expected resources
Resources ==
    {<<"Stack", expected_stacks(environment)[j]>> : j \in 1..4}
    \cup {<<"Bucket", expected_buckets(environment)[j]>> : j \in 1..3}
    \cup {<<"Glue Database", database_name(environment)>>,
          <<"Glue Crawler", crawler_name(environment)>>,
          <<"Athena Workgroup", workgroup_name(environment)>>}
    \cup {<<"IAM Role", expected_roles(environment)[j]>> : j \in 1..3}

\* all five check groups have run
GroupsDone == vpc \in {"summary", "return", "exit", "exited"}

\* C13: validate_all returns False, and the process exits with status 1, if
\* and only if the failed list is non-empty; with an empty failed list the
\* result is True and the exit status 0, whatever the warnings.
C13_ExitOneIffFailed ==
    /\ success # "none" =>
          (success = "False") = (Len(validation_results.failed) > 0)
    /\ exit_code # -1 =>
          /\ (exit_code = 1) = (Len(validation_results.failed) > 0)
          /\ Len(validation_results.failed) = 0 => success = "True"

\* C14: a validation pass is never aborted, and once the five groups have
\* run each of the 13 expected resources has exactly one entry in exactly one
\* of the three lists, so the lists hold 13 entries together.
C14_PassNeverAborted ==
    /\ vpc # "crashed"
    /\ GroupsDone =>
          /\ \A r \in Resources :
                \E c \in {"passed", "failed", "warnings"} : OnlyIn(c, r[1], r[2])
          /\ Len(validation_results.passed) + Len(validation_results.failed)
                + Len(validation_results.warnings) = 13

\* C15: an expected stack that was asked about has a pass iff describe_stacks
\* answered with a status that contains COMPLETE and not ROLLBACK; in every
\* other case (other status, describe error) it has exactly one failure and
\* nothing else, with the NOT FOUND marker when the error says the stack does
\* not exist.
C15_StackPassIffHealthy ==
    \A j \in 1..4 :
        LET name == expected_stacks(environment)[j]
            ans  == answers[<<"Stack", name>>]
            good == /\ ans.raises = "none"
                    /\ Contains(ans.detail, <<"COMPLETE">>)
                    /\ ~Contains(ans.detail, <<"ROLLBACK">>)
        IN  Asked("Stack", name) =>
                /\ good => OnlyIn("passed", "Stack", name)
                /\ ~good => OnlyIn("failed", "Stack", name)
                /\ (ans.raises # "none" /\ ans.detail = "does not exist") =>
                      <<"Stack", name, "NOT FOUND">> \in
                          {validation_results.failed[k] :
                              k \in DOMAIN validation_results.failed}

\* the bucket answered every call the check makes before it classifies
BucketAnswered(ans) == ans.head = "ok" /\ ans.versioning \in {"Enabled", "absent"}

\* C16 as stated: an expected bucket that was asked about has a failure if it
\* is absent, a pass iff it exists with versioning Enabled and an encryption
\* configuration, and in every other case exactly one warning and no failure.
C16_BucketWarnsUnlessAbsent ==
    \A j \in 1..3 :
        LET name == expected_buckets(environment)[j]
            ans  == answers[<<"Bucket", name>>]
        IN  Asked("Bucket", name) =>
                IF ans.head = "404" THEN OnlyIn("failed", "Bucket", name)
                ELSE IF ans = HealthyBucket THEN OnlyIn("passed", "Bucket", name)
                ELSE OnlyIn("warnings", "Bucket", name)

\* C16, amended: the bucket has a failure with NOT FOUND if head_bucket
\* answers 404; a failure with ERROR if head_bucket raises another ClientError
\* or get_bucket_versioning raises one; a pass iff all calls answer with
\* versioning Enabled and an encryption configuration; exactly one warning and
\* no failure if the calls answer but versioning is not Enabled or the
\* encryption configuration cannot be read; and no entry at all, the pass
\* being aborted, if head_bucket raises an error that is not a ClientError.
C16_BucketClassified ==
    \A j \in 1..3 :
        LET name   == expected_buckets(environment)[j]
            ans    == answers[<<"Bucket", name>>]
            failed == {validation_results.failed[k] :
                          k \in DOMAIN validation_results.failed}
        IN  Asked("Bucket", name) =>
                /\ ans.head = "404" =>
                      /\ OnlyIn("failed", "Bucket", name)
                      /\ <<"Bucket", name, "NOT FOUND">> \in failed
                /\ (ans.head = "403" \/ ans.versioning = "ClientError") =>
                      /\ OnlyIn("failed", "Bucket", name)
                      /\ <<"Bucket", name, "NOT FOUND">> \notin failed
                /\ OnlyIn("passed", "Bucket", name) = (ans = HealthyBucket)
                /\ (BucketAnswered(ans) /\ ans # HealthyBucket) =>
                      OnlyIn("warnings", "Bucket", name)
                /\ ans.head = "EndpointConnectionError" =>
                      /\ \A c \in {"passed", "failed", "warnings"} :
                            EntriesIn(c, "Bucket", name) = 0
                      /\ vpc = "crashed"

\* a finished pass in which the first bucket could not be inspected (403) and
\* the second has neither versioning nor a readable encryption configuration
C16_Witness ==
    /\ vpc = "exited"
    /\ answers[<<"Bucket", expected_buckets(environment)[1]>>].head = "403"
    /\ OnlyIn("failed", "Bucket", expected_buckets(environment)[1])
    /\ answers[<<"Bucket", expected_buckets(environment)[2]>>] =
          [head |-> "ok", versioning |-> "absent", encryption |-> "ClientError"]
    /\ <<"Bucket", expected_buckets(environment)[2],
         "Versioning=Disabled, Encryption=Disabled">> \in
          {validation_results.warnings[k] : k \in DOMAIN validation_results.warnings}

\* the service said the optional resource does not exist
Missing(kind, name) ==
    /\ Asked(kind, name)
    /\ kind # "Bucket"
    /\ answers[<<kind, name>>].raises \in
          {"EntityNotFoundException", "NoSuchEntityException"}

\* every answer so far is the healthy one, but for missing optional resources
OnlyOptionalMissing ==
    \A r \in DOMAIN answers :
        \/ answers[r] = (CASE r[1] = "Stack" -> HealthyStack
                           [] r[1] = "Bucket" -> HealthyBucket
                           [] r[1] = "Glue Database" -> HealthyDatabase
                           [] r[1] = "Glue Crawler" -> HealthyCrawler
                           [] r[1] = "Athena Workgroup" -> HealthyWorkgroup
                           [] OTHER -> HealthyRole)
        \/ r[1] \in {"Glue Crawler", "IAM Role"} /\ Missing(r[1], r[2])

\* C17: a missing crawler and each missing role have exactly one warning and
\* no other entry; the failed list never holds an entry of the crawler or of
\* a role; and a pass in which nothing but the crawler and roles is missing
\* is not aborted, returns True and exits with status 0.
C17_OptionalAbsenceWarns ==
    /\ \A r \in Resources :
          (r[1] \in {"Glue Crawler", "IAM Role"} /\ Missing(r[1], r[2])) =>
              OnlyIn("warnings", r[1], r[2])
    /\ \A k \in DOMAIN validation_results.failed :
          validation_results.failed[k][1] \notin {"Glue Crawler", "IAM Role"}
    /\ OnlyOptionalMissing =>
          /\ vpc # "crashed"
          /\ Len(validation_results.failed) = 0
          /\ success # "False"
          /\ vpc = "exited" => (success = "True" /\ exit_code = 0)

\* the pass ended with the crawler and the three roles missing
C17_Witness ==
    /\ vpc = "exited"
    /\ OnlyOptionalMissing
    /\ Cardinality({r \in Resources : Missing(r[1], r[2])}) = 4
    /\ Len(validation_results.warnings) = 4
    /\ exit_code = 0

\* C18: the workgroup has a pass if its state is ENABLED, a warning if it
\* answers with another state, a failure if it is reported absent; the
\* database has a pass if present and a failure if absent; and once either
\* is absent the pass never returns True nor exits with status 0: when it
\* returns, it returns False.
C18_RequiredAbsenceFails ==
    LET wg     == workgroup_name(environment)
        db     == database_name(environment)
        wgans  == answers[<<"Athena Workgroup", wg>>]
        dbans  == answers[<<"Glue Database", db>>]
        absent == \/ Asked("Athena Workgroup", wg) /\ wgans.raises = "InvalidRequestException"
                  \/ Missing("Glue Database", db)
    IN  /\ Asked("Athena Workgroup", wg) =>
              /\ (wgans.raises = "none" /\ wgans.detail = "ENABLED") =>
                    OnlyIn("passed", "Athena Workgroup", wg)
              /\ (wgans.raises = "none" /\ wgans.detail # "ENABLED") =>
                    OnlyIn("warnings", "Athena Workgroup", wg)
              /\ wgans.raises = "InvalidRequestException" =>
                    OnlyIn("failed", "Athena Workgroup", wg)
        /\ Asked("Glue Database", db) =>
              /\ dbans.raises = "none" => OnlyIn("passed", "Glue Database", db)
              /\ Missing("Glue Database", db) => OnlyIn("failed", "Glue Database", db)
        /\ absent =>
              /\ success # "True"
              /\ exit_code # 0
              /\ summary # "all_passed"
              /\ vpc \in {"exit", "exited"} => success = "False"
              /\ vpc = "exited" => exit_code = 1

\* a finished pass in which only the database is absent: one failure, exit 1
C18_Witness ==
    /\ vpc = "exited"
    /\ odd = 1
    /\ Missing("Glue Database", database_name(environment))
    /\ Len(validation_results.failed) = 1
    /\ Len(validation_results.passed) = 12
    /\ success = "False"
    /\ exit_code = 1

Verdict(name, status) ==
    validate_stack(name, [raises |-> "none", detail |-> status]).to

\* C22: every status on which _wait_for_stack_operation returns True is a
\* pass for the validator's stack check and every status on which it returns
\* False after the failure list is a failure: for the lists as such, for the
\* status the wait has just returned on, and for the status of every stack
\* whose deploy_stack call returned True.
C22_WaitAndValidatorAgree ==
    /\ \A n \in Names :
          /\ \A s \in SuccessStatuses : Verdict(n, s) = "passed"
          /\ \A s \in FailureStatuses : Verdict(n, s) = "failed"
          /\ returned[n] = "True" => Verdict(n, cf[n]) = "passed"
    /\ pc = "outputs" =>
          /\ stack_status \in SuccessStatuses
          /\ Verdict(cur.name, stack_status) = "passed"
    /\ pc = "events" =>
          /\ stack_status \in FailureStatuses
          /\ Verdict(cur.name, stack_status) = "failed"

\* the wait for the first stack returned True, the wait for the second has
\* just ended on a rolled-back update
C22_Witness ==
    /\ pc = "events"
    /\ i = 2
    /\ returned[stacks[1].name] = "True"
    /\ Verdict(stacks[1].name, cf[stacks[1].name]) = "passed"
    /\ stack_status = "UPDATE_ROLLBACK_COMPLETE"
    /\ Verdict(cur.name, stack_status) = "failed"

\* the names the validator looks up for the same environment
ExpectedStackNames ==
    {expected_stacks(args.environment)[j] : j \in 1..4}
ExpectedBucketNames ==
    {expected_buckets(args.environment)[j] : j \in 1..3}

\* C23: after a fully successful deploy with the default project name, the
\* bucket the templates were uploaded to is one of the three buckets the
\* validator checks for the environment, and the four stack names deployed
\* are exactly the four the validator expects.
C23_SameResources ==
    (pc = "done" /\ notice = "success" /\ args.project_name = DefaultProjectName) =>
        /\ bucket_name \in ExpectedBucketNames
        /\ Names = ExpectedStackNames

====
